---- MODULE Spec2Model ----
(***************************************************************************)
(* Model of the voice agent of src/components/VoiceAgent.tsx: the React    *)
(* effect that activates and tears down a live voice session, the capture  *)
(* callback that sends microphone blocks, and the onmessage handler that   *)
(* schedules inbound audio for playback.                                   *)
(*                                                                         *)
(* Every run of the effect with isOpen = true is an "activation"; it owns  *)
(* the closure variables of initSession (stream, inputAudioContext,        *)
(* outputAudioContext, outputNode, sessionPromise, and the isMuted value   *)
(* of the render that ran the effect).  Activations are numbered 1, 2, ... *)
(* and 0 stands for null in a ref.  The refs of the component are shared   *)
(* by all activations.                                                     *)
(*                                                                         *)
(* All handlers run on one event loop, so each action below is one handler *)
(* run to completion (or to its next await).                               *)
(*                                                                         *)
(* An error raised out of cleanup ends that call and is counted in threw.  *)
(* What the host does with an error raised by an effect is not part of the *)
(* component: the model lets the component stay mounted, and a host that   *)
(* unmounts it is the behaviours in which no host step follows.  The       *)
(* callbacks of the sessions already started fire either way.              *)
(***************************************************************************)
EXTENDS Integers, Sequences, FiniteSets, TLC

\* ---------------------------------------------------------------- bounds
MaxSessions == 2     \* activations of the effect in one behaviour
MaxClock == 2        \* the output device clock counts 0..MaxClock
MaxFrames == 2       \* inbound audio frames received in one behaviour
MaxDur == 2          \* a decoded frame lasts 1..MaxDur clock units
MaxBlocks == 2       \* capture blocks delivered to onaudioprocess
MaxInterrupts == 1   \* interruption signals handled
MaxBytes == 3        \* bytes in a sequence given to encodeAudio
MaxFrameBytes == 6   \* bytes in a frame given to decodeAudioData
MaxChannels == 2     \* numChannels given to decodeAudioData
MaxTokens == 4       \* tokens in the text of a model response
MaxSends == 2        \* chat messages the user sends
MaxChunks == 2       \* chunks of one streamed chat reply
MaxNow == 4          \* Date.now() counts 0..MaxNow

Sess == 1..MaxSessions
Durs == 1..MaxDur

Max(a, b) == IF a >= b THEN a ELSE b

VARIABLES
  isOpen,        \* prop isOpen
  isMuted,       \* useState isMuted
  isConnected,   \* useState isConnected
  status,        \* useState status
  refs,          \* the useRef cells holding nodes, stream, session, contexts
  nextStartTime, \* nextStartTimeRef.current
  sourcesRef,    \* sourcesRef.current: ids of the segments in the active set
  nAct,          \* number of activations started
  act,           \* per activation: closure state of initSession
  mic,           \* per activation: the MediaStream's tracks
  inCtx,         \* per activation: inputAudioContext
  outCtx,        \* per activation: outputAudioContext
  clock,         \* per activation: outputAudioContext.currentTime
  conn,          \* per activation: the transport session
  proc,          \* per activation: the ScriptProcessorNode
  srcNode,       \* per activation: the MediaStreamAudioSourceNode
  pending,       \* onmessage invocations suspended at the decode await (FIFO)
  segments,      \* every segment handed to source.start, in scheduling order
  stopped,       \* ids of the segments on which stop() was called
  blocks,        \* every block delivered to onaudioprocess, in capture order
  nArrived,      \* inbound audio frames received so far
  epoch,         \* interruption signals handled so far
  threw,         \* how many cleanup calls of the last effect run raised an error
  codec,         \* the last call of an audio codec function: input and result
  arxiv,         \* App: the mode and the progress of handleArxivScrape
  chat           \* App: the chat transcript and the progress of handleSendMessage

\* The variables of the voice agent.
voiceVars == <<isOpen, isMuted, isConnected, status, refs, nextStartTime, sourcesRef,
               nAct, act, mic, inCtx, outCtx, clock, conn, proc, srcNode, pending,
               segments, stopped, blocks, nArrived, epoch, threw>>

\* The variables outside the voice agent.
sideVars == <<codec, arxiv, chat>>

vars == <<voiceVars, sideVars>>

\* The six refs of lines 21-27, all null.
NullRefs ==
  [processorRef |-> 0, sourceRef |-> 0, streamRef |-> 0, sessionRef |-> 0,
   outputAudioContextRef |-> 0, inputAudioContextRef |-> 0]

\* An activation that has not run yet.
NoAct == [init |-> "none", muted |-> FALSE, torn |-> FALSE]

\* ------------------------------------------------------------- cleanup
\* What sessionRef.current holds is the promise returned by connect (line
\* 190), not the session it resolves to; a Promise has no close method, so
\* the call of line 44 raises a TypeError.
SessionRefHasClose == FALSE

\* The state cleanup reads and writes, as one record; ops lists the calls
\* cleanup makes on the platform objects, in the order it makes them.
World ==
  [refs |-> refs, act |-> act, mic |-> mic, inCtx |-> inCtx, outCtx |-> outCtx,
   conn |-> conn, proc |-> proc, srcNode |-> srcNode,
   isConnected |-> isConnected, threw |-> 0, ops |-> <<>>]

\* Lines 31-34: disconnect the processor the ref names.
DisconnectProcessor(w) ==
  IF w.refs.processorRef # 0
    THEN [w EXCEPT !.proc[w.refs.processorRef] = "disconnected",
                   !.refs.processorRef = 0,
                   !.ops = Append(@, "processor.disconnect")]
    ELSE w

\* Lines 35-38: disconnect the source node the ref names.
DisconnectSource(w) ==
  IF w.refs.sourceRef # 0
    THEN [w EXCEPT !.srcNode[w.refs.sourceRef] = "disconnected",
                   !.refs.sourceRef = 0,
                   !.ops = Append(@, "source.disconnect")]
    ELSE w

\* Lines 39-42: stop every track of the stream the ref names.
StopTracks(w) ==
  IF w.refs.streamRef # 0
    THEN [w EXCEPT !.mic[w.refs.streamRef] = "stopped", !.refs.streamRef = 0,
                   !.ops = Append(@, "track.stop")]
    ELSE w

\* Lines 47-55: close both contexts and clear isConnected.
CloseContexts(w) ==
  LET w1 == IF w.refs.outputAudioContextRef # 0
              THEN [w EXCEPT !.outCtx[w.refs.outputAudioContextRef] = "closed",
                             !.refs.outputAudioContextRef = 0,
                             !.ops = Append(@, "outputAudioContext.close")]
              ELSE w
      w2 == IF w1.refs.inputAudioContextRef # 0
              THEN [w1 EXCEPT !.inCtx[w1.refs.inputAudioContextRef] = "closed",
                              !.refs.inputAudioContextRef = 0,
                              !.ops = Append(@, "inputAudioContext.close")]
              ELSE w1
  IN [w2 EXCEPT !.isConnected = FALSE]

\* Lines 43-46: close the session; a raised error ends cleanup there.
CloseSession(w) ==
  IF w.refs.sessionRef = 0
    THEN CloseContexts(w)
    ELSE IF SessionRefHasClose
      THEN CloseContexts(
             [w EXCEPT !.conn[w.refs.sessionRef] =
                          IF @ \in {"connecting", "open"} THEN "closed" ELSE @,
                       !.refs.sessionRef = 0,
                       !.ops = Append(@, "session.close")])
      ELSE [w EXCEPT !.threw = @ + 1, !.ops = Append(@, "session.close")]

\* Every activation started so far has seen teardown begin.
MarkTorn(w) ==
  [w EXCEPT !.act = [s \in Sess |->
      IF w.act[s].init # "none" THEN [w.act[s] EXCEPT !.torn = TRUE]
                                ELSE w.act[s]],
            !.ops = Append(@, "cleanup")]

\* A cleanup that stops the microphone tracks before it disconnects the
\* capture graph.
CleanupTracksFirst(w) ==
  CloseSession(DisconnectSource(DisconnectProcessor(StopTracks(MarkTorn(w)))))

\* cleanup, lines 30-56.
Cleanup(w) == CloseSession(StopTracks(DisconnectSource(DisconnectProcessor(MarkTorn(w)))))

\* Write a world record back to the variables.
Commit(w) ==
  /\ refs' = w.refs
  /\ act' = w.act
  /\ mic' = w.mic
  /\ inCtx' = w.inCtx
  /\ outCtx' = w.outCtx
  /\ conn' = w.conn
  /\ proc' = w.proc
  /\ srcNode' = w.srcNode
  /\ isConnected' = w.isConnected
  /\ threw' = w.threw

\* initSession up to its first await, lines 64-67, as activation s.
StartInit(w, s) ==
  [w EXCEPT !.act[s] = [init |-> "awaitMic", muted |-> isMuted, torn |-> FALSE]]

\* No codec function has been called.
NoCall == [op |-> "none"]

\* App before any scrape or upload: useState(AppMode.INGEST) and
\* useState<Paper[]>([]), App.tsx lines 28 and 31.
ArxivIdle ==
  [mode |-> "INGEST", pc |-> "idle", papers |-> [kind |-> "list", len |-> 0]]

\* App before any chat message, App.tsx lines 34-36: an empty transcript,
\* not loading.  now is Date.now(); log keeps, for every reply started, the
\* place of its bot message in the transcript and the chunks consumed.
ChatIdle ==
  [chatHistory |-> <<>>, isChatLoading |-> FALSE, pc |-> "idle", now |-> 0,
   botMsgId |-> 0, fullResponse |-> <<>>, log |-> <<>>]

\* ---------------------------------------------------------------- Init
\* The state after the first render with isOpen = false: the effect has run
\* cleanup on the null refs.
VoiceInit ==
  /\ isOpen = FALSE
  /\ isMuted = FALSE
  /\ isConnected = FALSE
  /\ status = "Initializing..."
  /\ refs = NullRefs
  /\ nextStartTime = 0
  /\ sourcesRef = {}
  /\ nAct = 0
  /\ act = [s \in Sess |-> NoAct]
  /\ mic = [s \in Sess |-> "none"]
  /\ inCtx = [s \in Sess |-> "none"]
  /\ outCtx = [s \in Sess |-> "none"]
  /\ clock = [s \in Sess |-> 0]
  /\ conn = [s \in Sess |-> "none"]
  /\ proc = [s \in Sess |-> "none"]
  /\ srcNode = [s \in Sess |-> "none"]
  /\ pending = <<>>
  /\ segments = <<>>
  /\ stopped = {}
  /\ blocks = <<>>
  /\ nArrived = 0
  /\ epoch = 0
  /\ threw = 0

Init ==
  /\ VoiceInit
  /\ codec = NoCall
  /\ arxiv = ArxivIdle
  /\ chat = ChatIdle

playVars == <<nextStartTime, sourcesRef, clock, pending, segments, stopped,
              nArrived, epoch>>

\* ------------------------------------------------- the effect, lines 58-202
\* isOpen becomes true: the previous run returned no destroy function, so
\* only the body runs, and it calls initSession.
Open ==
  /\ ~isOpen
  /\ nAct < MaxSessions
  /\ isOpen' = TRUE
  /\ nAct' = nAct + 1
  /\ status' = "Requesting permissions..."
  /\ Commit(StartInit(World, nAct + 1))
  /\ UNCHANGED <<isMuted, blocks>>
  /\ UNCHANGED playVars
  /\ UNCHANGED sideVars

\* isOpen becomes false: the destroy function of the previous run calls
\* cleanup (line 200), then the body calls cleanup again (lines 59-62).
Close ==
  /\ isOpen
  /\ isOpen' = FALSE
  /\ Commit(Cleanup(Cleanup(World)))
  /\ UNCHANGED <<isMuted, status, nAct, blocks>>
  /\ UNCHANGED playVars
  /\ UNCHANGED sideVars

\* contextSummary changes while open: the destroy function calls cleanup,
\* then the body starts a new activation.
ChangeContextOpen ==
  /\ isOpen
  /\ nAct < MaxSessions
  /\ nAct' = nAct + 1
  /\ status' = "Requesting permissions..."
  /\ Commit(StartInit(Cleanup(World), nAct + 1))
  /\ UNCHANGED <<isOpen, isMuted, blocks>>
  /\ UNCHANGED playVars
  /\ UNCHANGED sideVars

\* contextSummary changes while closed: the body calls cleanup.
ChangeContextClosed ==
  /\ ~isOpen
  /\ Commit(Cleanup(World))
  /\ UNCHANGED <<isOpen, isMuted, status, nAct, blocks>>
  /\ UNCHANGED playVars
  /\ UNCHANGED sideVars

\* The mute button, line 238; it is rendered only while open.
ToggleMute ==
  /\ isOpen
  /\ isMuted' = ~isMuted
  /\ UNCHANGED <<isOpen, isConnected, status, refs, nAct, act, mic, inCtx,
                 outCtx, conn, proc, srcNode, blocks, threw>>
  /\ UNCHANGED playVars
  /\ UNCHANGED sideVars

\* ------------------------------------------- initSession, lines 64-196
\* An initSession that builds the capture processor as soon as the
\* microphone is granted, before the transport has opened.
MicGrantedEarlyCapture(s) ==
  /\ act[s].init = "awaitMic"
  /\ act' = [act EXCEPT ![s].init = "done"]
  /\ mic' = [mic EXCEPT ![s] = "live"]
  /\ status' = "Connecting to Gemini..."
  /\ inCtx' = [inCtx EXCEPT ![s] = "running"]
  /\ outCtx' = [outCtx EXCEPT ![s] = "running"]
  /\ clock' = [clock EXCEPT ![s] = 0]
  /\ conn' = [conn EXCEPT ![s] = "connecting"]
  /\ proc' = [proc EXCEPT ![s] = "connected"]
  /\ refs' = [refs EXCEPT !.streamRef = s, !.inputAudioContextRef = s,
                          !.outputAudioContextRef = s, !.sessionRef = s,
                          !.processorRef = s]
  /\ UNCHANGED <<isOpen, isMuted, isConnected, nAct, srcNode, blocks,
                 threw, nextStartTime, sourcesRef, pending, segments, stopped,
                 nArrived, epoch>>
  /\ UNCHANGED sideVars

\* getUserMedia resolves: lines 68-190 run without a further await.  The
\* refs are overwritten with this activation's objects whatever happened
\* to the component while the request was pending.
MicGranted(s) ==
  /\ act[s].init = "awaitMic"
  /\ act' = [act EXCEPT ![s].init = "done"]
  /\ mic' = [mic EXCEPT ![s] = "live"]
  /\ status' = "Connecting to Gemini..."
  /\ inCtx' = [inCtx EXCEPT ![s] = "running"]
  /\ outCtx' = [outCtx EXCEPT ![s] = "running"]
  /\ clock' = [clock EXCEPT ![s] = 0]
  /\ conn' = [conn EXCEPT ![s] = "connecting"]
  /\ refs' = [refs EXCEPT !.streamRef = s, !.inputAudioContextRef = s,
                          !.outputAudioContextRef = s, !.sessionRef = s]
  /\ UNCHANGED <<isOpen, isMuted, isConnected, nAct, proc, srcNode, blocks,
                 threw, nextStartTime, sourcesRef, pending, segments, stopped,
                 nArrived, epoch>>
  /\ UNCHANGED sideVars

\* getUserMedia rejects: the catch of lines 192-195.
MicDenied(s) ==
  /\ act[s].init = "awaitMic"
  /\ act' = [act EXCEPT ![s].init = "failed"]
  /\ status' = "Failed to connect microphone"
  /\ UNCHANGED <<isOpen, isMuted, isConnected, refs, nAct, mic, inCtx, outCtx,
                 conn, proc, srcNode, blocks, threw>>
  /\ UNCHANGED playVars
  /\ UNCHANGED sideVars

\* ------------------------------------------ transport callbacks, 107-187
\* onopen, lines 107-143: builds the capture graph on this activation's
\* input context and stream.
OnOpen(s) ==
  /\ conn[s] = "connecting"
  /\ conn' = [conn EXCEPT ![s] = "open"]
  /\ isConnected' = TRUE
  /\ status' = "Listening..."
  /\ refs' = [refs EXCEPT !.sourceRef = s, !.processorRef = s]
  /\ srcNode' = [srcNode EXCEPT ![s] = "connected"]
  /\ proc' = [proc EXCEPT ![s] = "connected"]
  /\ UNCHANGED <<isOpen, isMuted, nAct, act, mic, inCtx, outCtx, blocks, threw>>
  /\ UNCHANGED playVars
  /\ UNCHANGED sideVars

\* onclose, lines 179-182: the transport ended on its own account.
OnClose(s) ==
  /\ conn[s] \in {"connecting", "open"}
  /\ conn' = [conn EXCEPT ![s] = "closed"]
  /\ isConnected' = FALSE
  /\ UNCHANGED <<isOpen, isMuted, status, refs, nAct, act, mic, inCtx, outCtx,
                 proc, srcNode, blocks, threw>>
  /\ UNCHANGED playVars
  /\ UNCHANGED sideVars

\* An onerror that dials again: the transport goes back to connecting.
OnErrorReconnect(s) ==
  /\ conn[s] \in {"connecting", "open"}
  /\ status' = "Error occurred"
  /\ conn' = [conn EXCEPT ![s] = "connecting"]
  /\ isConnected' = FALSE
  /\ UNCHANGED <<isOpen, isMuted, refs, nAct, act, mic, inCtx, outCtx, proc,
                 srcNode, blocks, threw>>
  /\ UNCHANGED playVars
  /\ UNCHANGED sideVars

\* onerror, lines 183-186.
OnError(s) ==
  /\ conn[s] \in {"connecting", "open"}
  /\ status' = "Error occurred"
  /\ UNCHANGED <<isOpen, isMuted, isConnected, refs, nAct, act, mic, inCtx,
                 outCtx, conn, proc, srcNode, blocks, threw>>
  /\ UNCHANGED playVars
  /\ UNCHANGED sideVars

\* ------------------------------------------------ capture, lines 119-139
\* The isMuted the callback reads is the closure's: the value of the render
\* that ran the effect (the effect's deps are [isOpen, contextSummary]).
MutedSeenByCallback(s) == act[s].muted

\* One block delivered to onaudioprocess of activation s.  The processor
\* fires while it is connected to the destination of a running context;
\* sessionPromise is resolved by then, so the send follows at once.
AudioProcess(s) ==
  /\ proc[s] = "connected"
  /\ inCtx[s] = "running"
  /\ Len(blocks) < MaxBlocks
  /\ blocks' = Append(blocks,
       [sess |-> s, muted |-> isMuted, sent |-> ~MutedSeenByCallback(s),
        late |-> act[s].torn, open |-> (conn[s] = "open"),
        mime |-> IF MutedSeenByCallback(s) THEN "" ELSE "audio/pcm;rate=16000"])
  /\ UNCHANGED <<isOpen, isMuted, isConnected, status, refs, nAct, act, mic,
                 inCtx, outCtx, conn, proc, srcNode, threw>>
  /\ UNCHANGED playVars
  /\ UNCHANGED sideVars

\* ----------------------------------------------- playback, lines 144-178
\* Line 151: the cursor is clamped to the device clock before the decode.
ClampCursor(cursor, now) == Max(cursor, now)

\* A cursor set to the duration alone, the device time forgotten.
AdvanceFromZero(cursor, d) == d

\* Line 169: the cursor advances by the duration of the decoded buffer.
AdvanceCursor(cursor, d) == cursor + d

\* Line 176: the value the cursor takes on an interruption.
ResetCursor == 0

\* Line 168, source.start(when): a start time already in the past begins
\* playing at the context's current time.
StartAt(when, now) == Max(when, now)

\* Mutant of ResumeIndex: the handler suspended last resumes first, as
\* when decodes complete out of order.
ResumeLast == Len(pending)

\* Line 153: decodeAudioData has no await of its own, so every suspended
\* onmessage resumes one microtask after it suspended: first in, first out.
ResumeIndex == 1

\* Mutant of Interrupt: the sources are stopped but the set is not cleared.
InterruptNoClear(p) ==
  [p EXCEPT !.stopped = p.stopped \cup p.sources,
            !.cursor = ResetCursor,
            !.epoch = p.epoch + 1]

\* Lines 173-177 applied to a playback state.
Interrupt(p) ==
  [p EXCEPT !.stopped = p.stopped \cup p.sources,
            !.sources = {},
            !.cursor = ResetCursor,
            !.epoch = p.epoch + 1]

Playback ==
  [sources |-> sourcesRef, stopped |-> stopped, cursor |-> nextStartTime,
   epoch |-> epoch]

CommitPlayback(p) ==
  /\ sourcesRef' = p.sources
  /\ stopped' = p.stopped
  /\ nextStartTime' = p.cursor
  /\ epoch' = p.epoch

\* Interruption flags not yet handled: those of the suspended handlers.
PendingInterrupts == Cardinality({i \in DOMAIN pending : pending[i].intr})

appVars == <<isOpen, isMuted, isConnected, status, refs, nAct, act, mic, inCtx,
             outCtx, conn, proc, srcNode, blocks, threw>>

\* onmessage with no audio part and the interrupted flag, lines 173-177.
OnMessageInterrupted(s) ==
  /\ conn[s] = "open"
  /\ epoch + PendingInterrupts < MaxInterrupts
  /\ CommitPlayback(Interrupt(Playback))
  /\ UNCHANGED <<clock, pending, segments, nArrived>>
  /\ UNCHANGED appVars
  /\ UNCHANGED sideVars

\* onmessage with an audio part, lines 145-158, up to the decode await.
\* audio is "ok", "bad64" (atob raises in decodeAudio, line 154) or "odd"
\* (a byte length new Int16Array refuses, part_000 line 134).
OnMessageAudio(s, audio, d, intr) ==
  /\ conn[s] = "open"
  /\ nArrived < MaxFrames
  /\ intr => epoch + PendingInterrupts < MaxInterrupts
  /\ nArrived' = nArrived + 1
  /\ LET ctx == refs.outputAudioContextRef IN
       IF ctx = 0
         THEN UNCHANGED <<nextStartTime, pending>>
         ELSE /\ nextStartTime' = ClampCursor(nextStartTime, clock[ctx])
              /\ pending' =
                   IF audio = "bad64" THEN pending
                   ELSE Append(pending,
                          [sess |-> s, ctx |-> ctx, dur |-> d,
                           odd |-> (audio = "odd"), intr |-> intr,
                           arr |-> nArrived + 1, epA |-> epoch,
                           q |-> Len(pending), at |-> clock[ctx],
                           c0 |-> nextStartTime])
  /\ UNCHANGED <<sourcesRef, clock, segments, stopped, epoch>>
  /\ UNCHANGED appVars
  /\ UNCHANGED sideVars

\* decodeAudioData rejects: new Int16Array(data.buffer) raises a RangeError
\* on a byte length that is odd, part_000 line 134.
DecodeFails(p) == p.odd

\* The segment line 168 starts for the suspended handler p.
NewSegment(p) ==
  [sess |-> p.sess, ctx |-> p.ctx, arr |-> p.arr, dur |-> p.dur,
   req |-> nextStartTime,
   beg |-> StartAt(nextStartTime, clock[p.ctx]),
   fin |-> StartAt(nextStartTime, clock[p.ctx]) + p.dur,
   epA |-> p.epA, epS |-> epoch, q |-> p.q, late |-> act[p.sess].torn,
   at |-> p.at, now |-> clock[p.ctx], c0 |-> p.c0]

\* The decode await returns, lines 153-177.  A rejected decode, or connect
\* to an outputNode of another context (line 162), ends the handler with
\* nothing scheduled and its interrupted flag unread.
Resume ==
  /\ pending # <<>>
  /\ LET p == pending[ResumeIndex]
         id == Len(segments) + 1
         scheduled == [Playback EXCEPT
                         !.cursor = AdvanceCursor(nextStartTime, p.dur),
                         !.sources = sourcesRef \cup {id}]
     IN /\ pending' = [i \in 1..(Len(pending) - 1) |->
                          IF i < ResumeIndex THEN pending[i] ELSE pending[i + 1]]
        /\ IF DecodeFails(p) \/ p.ctx # p.sess
             THEN UNCHANGED <<nextStartTime, sourcesRef, segments, stopped, epoch>>
             ELSE /\ segments' = Append(segments, NewSegment(p))
                  /\ CommitPlayback(IF p.intr THEN Interrupt(scheduled)
                                              ELSE scheduled)
  /\ UNCHANGED <<clock, nArrived>>
  /\ UNCHANGED appVars
  /\ UNCHANGED sideVars

\* The 'ended' listener of lines 164-166: a segment that played to its end
\* or was stopped leaves the active set.
Ended(i) ==
  /\ i \in sourcesRef
  /\ i \in stopped \/ clock[segments[i].ctx] >= segments[i].fin
  /\ sourcesRef' = sourcesRef \ {i}
  /\ UNCHANGED <<nextStartTime, clock, pending, segments, stopped, nArrived,
                 epoch>>
  /\ UNCHANGED appVars
  /\ UNCHANGED sideVars

\* The output device clock: every running output context advances.
Tick ==
  /\ \E s \in Sess : outCtx[s] = "running"
  /\ \A s \in Sess : outCtx[s] = "running" => clock[s] < MaxClock
  /\ clock' = [s \in Sess |->
                 IF outCtx[s] = "running" THEN clock[s] + 1 ELSE clock[s]]
  /\ UNCHANGED <<nextStartTime, sourcesRef, pending, segments, stopped,
                 nArrived, epoch>>
  /\ UNCHANGED appVars
  /\ UNCHANGED sideVars

\* ------------------------------------------------------ specifications
\* A session is started, opened or torn down.
SessionStep ==
  \/ Open
  \/ Close
  \/ ChangeContextOpen
  \/ \E s \in Sess : MicGranted(s)
  \/ \E s \in Sess : OnOpen(s)

\* The other lifecycle events: they end a transport, set a status, or run
\* cleanup once more.
LifecycleStep ==
  \/ ChangeContextClosed
  \/ \E s \in Sess : MicDenied(s)
  \/ \E s \in Sess : OnClose(s)
  \/ \E s \in Sess : OnError(s)

\* Capture and mute.
CaptureStep ==
  \/ ToggleMute
  \/ \E s \in Sess : AudioProcess(s)

\* Inbound messages, the decode await, the 'ended' event, the device clock.
PlaybackStep ==
  \/ \E s \in Sess : OnMessageInterrupted(s)
  \/ \E s \in Sess, audio \in {"ok", "bad64", "odd"}, d \in Durs, intr \in BOOLEAN :
       OnMessageAudio(s, audio, d, intr)
  \/ Resume
  \/ \E i \in DOMAIN segments : Ended(i)
  \/ Tick

Next == SessionStep \/ LifecycleStep \/ CaptureStep \/ PlaybackStep

Spec == Init /\ [][Next]_vars

\* The session lifecycle and the capture path: no inbound message arrives.
NextLifecycle == SessionStep \/ LifecycleStep \/ CaptureStep

SpecLifecycle == Init /\ [][NextLifecycle]_vars

\* The playback path over the sessions the host starts and tears down.  The
\* steps left out write none of the variables playback reads, except that
\* onclose ends the messages of its session.
NextPlayback == SessionStep \/ PlaybackStep

SpecPlayback == Init /\ [][NextPlayback]_vars

\* ------------------------------------- the audio codec, part_000 109-145
\* A binary string is the sequence of its code units, a base64 text the
\* sequence of its characters: 0..63 for the alphabet A-Z a-z 0-9 + /, and
\* Pad for '='.  A float sample is counted in units of 1/Scale.
Pad == 64
Scale == 32768

\* String.fromCharCode(x), line 113: one UTF-16 code unit.
FromCharCode(x) == x % 65536

\* bytes[i] = x, line 123: a Uint8Array stores x modulo 2^8.
ToUint8(x) == x % 256

\* btoa, line 115: three code units make four characters; a last group of
\* one or two is padded.  Every code unit is below 256 here.
RECURSIVE Btoa(_)
Btoa(s) ==
  IF Len(s) = 0 THEN <<>>
  ELSE IF Len(s) = 1
    THEN <<s[1] \div 4, (s[1] % 4) * 16, Pad, Pad>>
  ELSE IF Len(s) = 2
    THEN <<s[1] \div 4, (s[1] % 4) * 16 + s[2] \div 16, (s[2] % 16) * 4, Pad>>
  ELSE <<s[1] \div 4, (s[1] % 4) * 16 + s[2] \div 16,
         (s[2] % 16) * 4 + s[3] \div 64, s[3] % 64>>
       \o Btoa(SubSeq(s, 4, Len(s)))

\* The characters of t with up to two trailing '=' removed when the length
\* is a multiple of four (forgiving-base64 decode, step 2).
StripPad(t) ==
  IF Len(t) % 4 # 0 \/ Len(t) = 0 \/ t[Len(t)] # Pad THEN t
  ELSE IF t[Len(t) - 1] = Pad THEN SubSeq(t, 1, Len(t) - 2)
  ELSE SubSeq(t, 1, Len(t) - 1)

\* The bytes of unpadded base64 characters: four make three bytes, a rest
\* of two or three makes one or two, the spare bits discarded.
RECURSIVE Sextets(_)
Sextets(t) ==
  IF Len(t) = 0 THEN <<>>
  ELSE IF Len(t) = 2
    THEN <<t[1] * 4 + t[2] \div 16>>
  ELSE IF Len(t) = 3
    THEN <<t[1] * 4 + t[2] \div 16, (t[2] % 16) * 16 + t[3] \div 4>>
  ELSE <<t[1] * 4 + t[2] \div 16, (t[2] % 16) * 16 + t[3] \div 4,
         (t[3] % 4) * 64 + t[4]>>
       \o Sextets(SubSeq(t, 5, Len(t)))

\* atob, line 119: raises InvalidCharacterError when what is left after the
\* padding has a length of 1 modulo 4 or holds a '='.
Atob(t) ==
  LET u == StripPad(t)
  IN IF Len(u) % 4 = 1 \/ \E i \in DOMAIN u : u[i] = Pad
       THEN [err |-> "InvalidCharacterError", str |-> <<>>]
       ELSE [err |-> "none", str |-> Sextets(u)]

\* encodeAudio, lines 109-116.
encodeAudio(bytes) == Btoa([i \in DOMAIN bytes |-> FromCharCode(bytes[i])])

\* A decodeAudio whose bytes keep seven bits of each code unit.
decodeAudioAscii(base64) ==
  LET a == Atob(base64)
  IN [err |-> a.err, bytes |-> [i \in DOMAIN a.str |-> a.str[i] % 128]]

\* decodeAudio, lines 118-126.
decodeAudio(base64) ==
  LET a == Atob(base64)
  IN [err |-> a.err, bytes |-> [i \in DOMAIN a.str |-> ToUint8(a.str[i])]]

\* int16[i] = x, VoiceAgent.tsx line 127: an Int16Array stores the integer
\* x modulo 2^16, read back as a signed value.
ToInt16(x) == ((x + 32768) % 65536) - 32768

\* new Uint8Array(int16.buffer), line 129: the two bytes of each element,
\* low byte first.
RECURSIVE Int16Bytes(_)
Int16Bytes(v) ==
  IF Len(v) = 0 THEN <<>>
  ELSE <<(v[1] % 65536) % 256, (v[1] % 65536) \div 256>> \o Int16Bytes(Tail(v))

\* dataInt16[i] of new Int16Array(data.buffer), part_000 line 134, i from 1.
Int16At(data, i) ==
  LET u == data[2 * i - 1] + 256 * data[2 * i]
  IN IF u >= 32768 THEN u - 65536 ELSE u

\* decodeAudioData, lines 128-145.  new Int16Array raises a RangeError on
\* an odd byte length; createBuffer takes the frame count as an unsigned
\* long (the fraction is dropped) and raises NotSupportedError on 0.
decodeAudioData(data, numChannels) ==
  IF Len(data) % 2 # 0
    THEN [err |-> "RangeError", channels |-> <<>>]
  ELSE LET frameCount == (Len(data) \div 2) \div numChannels
       IN IF frameCount = 0
            THEN [err |-> "NotSupportedError", channels |-> <<>>]
            ELSE [err |-> "none",
                  channels |->
                    [channel \in 1..numChannels |->
                       [i \in 1..frameCount |->
                          Int16At(data, (i - 1) * numChannels + channel)]]]

\* The inputs of the codec functions.
ProbeBytes == {0, 1, 63, 64, 127, 128, 251, 255}
FrameProbeBytes == {0, 128, 255}

ByteSeqs ==
  UNION {[1..n -> ProbeBytes] : n \in 0..MaxBytes}
    \cup {<<x>> : x \in 0..255}

FrameSeqs == UNION {[1..n -> FrameProbeBytes] : n \in 0..MaxFrameBytes}

CodecInputs ==
  {[op |-> "bytes", bytes |-> b] : b \in ByteSeqs}
    \cup {[op |-> "sample", k |-> k] : k \in (0 - Scale)..Scale}
    \cup {[op |-> "frame", data |-> d, numChannels |-> c] :
            d \in FrameSeqs, c \in 1..MaxChannels}

InitCodec ==
  /\ VoiceInit
  /\ arxiv = ArxivIdle
  /\ chat = ChatIdle
  /\ codec \in CodecInputs

\* encodeAudio is called on the bytes.
EncodeCall ==
  /\ codec.op = "bytes"
  /\ codec' = [op |-> "encoded", bytes |-> codec.bytes,
               base64 |-> encodeAudio(codec.bytes)]
  /\ UNCHANGED <<voiceVars, arxiv, chat>>

\* decodeAudio is called on the text encodeAudio returned.
DecodeCall ==
  /\ codec.op = "encoded"
  /\ codec' = [op |-> "decoded", bytes |-> codec.bytes,
               out |-> decodeAudio(codec.base64)]
  /\ UNCHANGED <<voiceVars, arxiv, chat>>

\* The capture callback converts the sample k/Scale, lines 125-129.
CaptureSample ==
  /\ codec.op = "sample"
  /\ codec' = [op |-> "pcm", k |-> codec.k,
               data |-> Int16Bytes(<<ToInt16(codec.k)>>)]
  /\ UNCHANGED <<voiceVars, arxiv, chat>>

\* decodeAudioData converts the captured sample back, one channel.
DecodeSample ==
  /\ codec.op = "pcm"
  /\ codec' = [op |-> "float", k |-> codec.k,
               out |-> decodeAudioData(codec.data, 1)]
  /\ UNCHANGED <<voiceVars, arxiv, chat>>

\* decodeAudioData is called on a frame.
DecodeDataCall ==
  /\ codec.op = "frame"
  /\ codec' = [op |-> "buffer", data |-> codec.data,
               numChannels |-> codec.numChannels,
               out |-> decodeAudioData(codec.data, codec.numChannels)]
  /\ UNCHANGED <<voiceVars, arxiv, chat>>

NextCodec ==
  \/ EncodeCall
  \/ DecodeCall
  \/ CaptureSample
  \/ DecodeSample
  \/ DecodeDataCall

SpecCodec == InitCodec /\ [][NextCodec]_vars

\* ------------------ the paper service, part_000 7-54 and App.tsx 49-126
\* A response text is a sequence of tokens: the brackets and comma of JSON,
\* an object literal, null, the empty string literal (a pair of quotes), a
\* piece of prose, and the two Markdown fences the code removes.
Tokens == {"[", "]", ",", "{}", "null", "quotes", "prose", "fence-json", "fence"}

Texts == UNION {[1..n -> Tokens] : n \in 0..MaxTokens}

\* The outcomes of ai.models.generateContent: a rejection, or a response
\* whose text is given (the empty text stands for the empty string and undefined).
Responses == {[kind |-> "reject", text |-> <<>>]}
               \cup {[kind |-> "text", text |-> x] : x \in Texts}

\* The two replace calls of line 35: every Markdown fence, with or without
\* the json tag, is removed.
RECURSIVE RemoveFences(_)
RemoveFences(x) ==
  IF Len(x) = 0 THEN <<>>
  ELSE IF Head(x) \in {"fence-json", "fence"} THEN RemoveFences(Tail(x))
  ELSE <<Head(x)>> \o RemoveFences(Tail(x))

\* indexOf and lastIndexOf, lines 38-39, counted from 1; 0 is not found.
IndexOf(x, c) ==
  IF \E i \in DOMAIN x : x[i] = c
    THEN CHOOSE i \in DOMAIN x : x[i] = c /\ \A j \in 1..(i - 1) : x[j] # c
    ELSE 0

LastIndexOf(x, c) ==
  IF \E i \in DOMAIN x : x[i] = c
    THEN CHOOSE i \in DOMAIN x : x[i] = c /\ \A j \in (i + 1)..Len(x) : x[j] # c
    ELSE 0

\* text.substring(start, end + 1), line 42: substring swaps its arguments
\* when the first is the greater.
Substring(x, start, end) ==
  IF start <= end THEN SubSeq(x, start, end)
  ELSE SubSeq(x, end + 1, start - 1)

\* JSON.parse, lines 43 and 47: one value and nothing after it.
NoValue == [ok |-> FALSE, next |-> 0, kind |-> "none", len |-> 0]

RECURSIVE ParseValue(_, _)
RECURSIVE ParseElems(_, _, _)
ParseValue(x, i) ==
  IF i > Len(x) THEN NoValue
  ELSE IF x[i] = "{}" THEN [ok |-> TRUE, next |-> i + 1, kind |-> "object", len |-> 0]
  ELSE IF x[i] = "null" THEN [ok |-> TRUE, next |-> i + 1, kind |-> "null", len |-> 0]
  ELSE IF x[i] = "quotes" THEN [ok |-> TRUE, next |-> i + 1, kind |-> "string", len |-> 0]
  ELSE IF x[i] = "["
    THEN IF i + 1 <= Len(x) /\ x[i + 1] = "]"
           THEN [ok |-> TRUE, next |-> i + 2, kind |-> "list", len |-> 0]
           ELSE ParseElems(x, i + 1, 0)
  ELSE NoValue

ParseElems(x, i, n) ==
  LET v == ParseValue(x, i)
  IN IF ~v.ok \/ v.next > Len(x) THEN NoValue
     ELSE IF x[v.next] = "]"
       THEN [ok |-> TRUE, next |-> v.next + 1, kind |-> "list", len |-> n + 1]
     ELSE IF x[v.next] = "," THEN ParseElems(x, v.next + 1, n + 1)
     ELSE NoValue

JSONParse(x) ==
  LET v == ParseValue(x, 1)
  IN IF v.ok /\ v.next = Len(x) + 1
       THEN [threw |-> FALSE, kind |-> v.kind, len |-> v.len]
       ELSE [threw |-> TRUE, kind |-> "none", len |-> 0]

\* return [], line 52.
EmptyList == [threw |-> FALSE, kind |-> "list", len |-> 0]

\* generateArxivPapers, lines 7-54: what the returned promise settles to.
generateArxivPapers(resp) ==
  IF resp.kind = "reject" THEN EmptyList
  ELSE LET text == RemoveFences(IF resp.text = <<>> THEN <<"[", "]">>
                                                   ELSE resp.text)
           start == IndexOf(text, "[")
           end == LastIndexOf(text, "]")
           parsed == IF start # 0 /\ end # 0
                       THEN JSONParse(Substring(text, start, end))
                       ELSE JSONParse(text)
       IN IF parsed.threw THEN EmptyList ELSE parsed

\* fetchedPapers.length === 0, App.tsx line 57: reading length of null
\* raises a TypeError; an object has no length.
LengthIsZero(v) ==
  IF v.kind = "null" THEN "TypeError"
  ELSE IF v.kind \in {"list", "string"} /\ v.len = 0 THEN "yes"
  ELSE "no"

InitArxiv ==
  /\ VoiceInit
  /\ codec = NoCall
  /\ arxiv = ArxivIdle
  /\ chat = ChatIdle

\* handleArxivScrape up to its await, App.tsx lines 49-55; the button is
\* rendered in INGEST mode only.
ScrapeStart ==
  /\ arxiv.pc = "idle"
  /\ arxiv.mode = "INGEST"
  /\ arxiv' = [mode |-> "PROCESSING", pc |-> "awaitPapers",
               papers |-> arxiv.papers]
  /\ UNCHANGED <<voiceVars, codec, chat>>

\* generateArxivPapers settles, lines 55-69, catch of lines 71-75.
ScrapeReturn(resp) ==
  /\ arxiv.pc = "awaitPapers"
  /\ LET fetchedPapers == generateArxivPapers(resp)
     IN arxiv' = [mode |-> "PROCESSING",
                  pc |-> IF LengthIsZero(fetchedPapers) = "no"
                           THEN "runPipeline" ELSE "timer",
                  papers |-> IF LengthIsZero(fetchedPapers) = "no"
                               THEN [kind |-> fetchedPapers.kind,
                                     len |-> fetchedPapers.len]
                               ELSE arxiv.papers,
                  by |-> "handleArxivScrape",
                  resp |-> resp,
                  fetchedPapers |-> fetchedPapers]
  /\ UNCHANGED <<voiceVars, codec, chat>>

\* handleFileUpload with a file chosen, App.tsx lines 78-95: one mock paper
\* and the pipeline, with no call of generateArxivPapers.  The upload field
\* is rendered in INGEST mode only.
FileUpload ==
  /\ arxiv.pc = "idle"
  /\ arxiv.mode = "INGEST"
  /\ arxiv' = [mode |-> "PROCESSING", pc |-> "runPipeline",
               papers |-> [kind |-> "list", len |-> 1],
               by |-> "handleFileUpload"]
  /\ UNCHANGED <<voiceVars, codec, chat>>

\* runPipeline ends, lines 101-126.
PipelineDone ==
  /\ arxiv.pc = "runPipeline"
  /\ arxiv' = [arxiv EXCEPT !.mode = "DASHBOARD", !.pc = "done"]
  /\ UNCHANGED <<voiceVars, codec, chat>>

\* The setTimeout of line 60 or 74 fires.
TimerFires ==
  /\ arxiv.pc = "timer"
  /\ arxiv' = [mode |-> "INGEST", pc |-> "idle", papers |-> arxiv.papers]
  /\ UNCHANGED <<voiceVars, codec, chat>>

NextArxiv ==
  \/ ScrapeStart
  \/ \E resp \in Responses : ScrapeReturn(resp)
  \/ FileUpload
  \/ PipelineDone
  \/ TimerFires

SpecArxiv == InitArxiv /\ [][NextArxiv]_vars

\* ----------------------------------- the chat, App.tsx lines 132-173
\* A text is the sequence of its characters, a message id the number
\* Date.now() gave (toString is one-to-one).  A chunk's text may be empty
\* or undefined: both count as the empty text (line 160).
ChunkTexts == {<<>>, <<"a">>, <<"b">>}

\* The text of the message added by the catch, line 171.
ErrorText == <<"S", "o", "r", "r", "y">>

\* fullResponse += content over the chunks, line 161.
RECURSIVE Concat(_)
Concat(cs) == IF Len(cs) = 0 THEN <<>> ELSE Head(cs) \o Concat(Tail(cs))

\* The update of lines 163-167: the message whose id is botMsgId gets the
\* text so far.
ShowResponse(prev, id, fullResponse, content) ==
  [i \in DOMAIN prev |->
     IF prev[i].id = id
       THEN [prev[i] EXCEPT !.text = fullResponse, !.isThinking = FALSE]
       ELSE prev[i]]

InitChat ==
  /\ VoiceInit
  /\ codec = NoCall
  /\ arxiv = ArxivIdle
  /\ chat = ChatIdle

\* handleSendMessage up to its await, lines 132-152.  The input and the
\* button are disabled while isChatLoading.
SendMessage(input) ==
  /\ chat.pc = "idle"
  /\ ~chat.isChatLoading
  /\ Len(chat.log) < MaxSends
  /\ chat' = [chat EXCEPT
       !.chatHistory = Append(@, [id |-> chat.now, role |-> "user",
                                  text |-> input, isThinking |-> FALSE]),
       !.isChatLoading = TRUE,
       !.log = Append(@, [pos |-> 0, chunks |-> <<>>, done |-> FALSE]),
       !.pc = "awaitStream"]
  /\ UNCHANGED <<voiceVars, codec, arxiv>>

\* chatWithKnowledgeBase resolves, lines 152-158: the bot message is added,
\* whatever Date.now() gives by then.
StreamOpens ==
  /\ chat.pc = "awaitStream"
  /\ chat' = [chat EXCEPT
       !.chatHistory = Append(@, [id |-> chat.now + 1, role |-> "model",
                                  text |-> <<>>, isThinking |-> TRUE]),
       !.botMsgId = chat.now + 1,
       !.fullResponse = <<>>,
       !.log[Len(chat.log)].pos = Len(chat.chatHistory) + 1,
       !.pc = "streaming"]
  /\ UNCHANGED <<voiceVars, codec, arxiv>>

\* The stream yields a chunk, lines 159-168.
ChunkArrives(content) ==
  /\ chat.pc = "streaming"
  /\ Len(chat.log[Len(chat.log)].chunks) < MaxChunks
  /\ chat' = [chat EXCEPT
       !.fullResponse = @ \o content,
       !.chatHistory = ShowResponse(@, chat.botMsgId,
                                    chat.fullResponse \o content, content),
       !.log[Len(chat.log)].chunks = Append(@, content)]
  /\ UNCHANGED <<voiceVars, codec, arxiv>>

\* The stream ends: the finally of lines 172-174.
StreamEnds ==
  /\ chat.pc = "streaming"
  /\ chat' = [chat EXCEPT !.isChatLoading = FALSE, !.pc = "idle",
                          !.log[Len(chat.log)].done = TRUE]
  /\ UNCHANGED <<voiceVars, codec, arxiv>>

\* chatWithKnowledgeBase rejects or the stream raises: the catch and the
\* finally of lines 169-174.
StreamFails ==
  /\ chat.pc \in {"awaitStream", "streaming"}
  /\ chat' = [chat EXCEPT
       !.chatHistory = Append(@, [id |-> chat.now, role |-> "model",
                                  text |-> ErrorText, isThinking |-> FALSE]),
       !.isChatLoading = FALSE,
       !.pc = "idle"]
  /\ UNCHANGED <<voiceVars, codec, arxiv>>

\* Date.now() moves on.
ChatTick ==
  /\ chat.now < MaxNow
  /\ chat' = [chat EXCEPT !.now = @ + 1]
  /\ UNCHANGED <<voiceVars, codec, arxiv>>

NextChat ==
  \/ \E input \in {<<"q">>, <<"a">>} : SendMessage(input)
  \/ StreamOpens
  \/ \E content \in ChunkTexts : ChunkArrives(content)
  \/ StreamEnds
  \/ StreamFails
  \/ ChatTick

SpecChat == InitChat /\ [][NextChat]_vars

\* ================================================================ claims

\* Two segments of one output context with no interruption handled between
\* the arrival of the earlier frame and the scheduling of the later one.
Uninterrupted(i, j) ==
  /\ segments[i].arr < segments[j].arr
  /\ segments[i].epA = segments[j].epS

\* C1: with no interruption in between, no two scheduled segments overlap:
\* a later segment begins playing no earlier than an earlier one finishes,
\* whatever the device clock did while a decode was awaited.
C1_NoOverlap ==
  \A i, j \in DOMAIN segments :
    (Uninterrupted(i, j) /\ segments[i].ctx = segments[j].ctx)
      => segments[j].beg >= segments[i].fin

\* C2: closing the agent after a session was activated runs cleanup twice
\* in a row; neither call raises an error and the microphone tracks the
\* stream ref named are stopped afterwards.
C2_CleanupTwiceNoError ==
  [][(isOpen /\ ~isOpen' /\ refs.sessionRef # 0)
       => /\ threw' = 0
          /\ refs.streamRef # 0 => mic'[refs.streamRef] = "stopped"]_vars

\* The step runs cleanup: any run of the effect but the one that opens.
CleanupRuns == Close \/ ChangeContextOpen \/ ChangeContextClosed

\* C3: when cleanup returns, the capture graph the refs named is
\* disconnected, the stream's tracks are stopped, the transport session is
\* closed and both audio contexts are closed.
C3_TeardownComplete ==
  [][CleanupRuns =>
       /\ refs.processorRef # 0 => proc'[refs.processorRef] = "disconnected"
       /\ refs.sourceRef # 0 => srcNode'[refs.sourceRef] = "disconnected"
       /\ refs.streamRef # 0 => mic'[refs.streamRef] = "stopped"
       /\ refs.sessionRef # 0 => conn'[refs.sessionRef] = "closed"
       /\ refs.outputAudioContextRef # 0
            => outCtx'[refs.outputAudioContextRef] = "closed"
       /\ refs.inputAudioContextRef # 0
            => inCtx'[refs.inputAudioContextRef] = "closed"]_vars

\* No activation step is pending: no microphone request, no connection.
Settled ==
  \A s \in Sess : act[s].init # "awaitMic" /\ conn[s] # "connecting"

\* C4: once the agent is closed, its cleanup raised nothing and every
\* pending activation step has settled, no microphone is held, no audio
\* context is open and no transport session is open.
C4_ClosedReleasesAll ==
  (~isOpen /\ threw = 0 /\ Settled)
    => \A s \in Sess : /\ mic[s] # "live"
                       /\ inCtx[s] # "running"
                       /\ outCtx[s] # "running"
                       /\ conn[s] # "open"

\* C5: after teardown of an activation has begun, none of its captured
\* blocks is sent and none of its inbound frames is scheduled.
C5_NothingAfterTeardown ==
  /\ \A i \in DOMAIN blocks : blocks[i].sent => ~blocks[i].late
  /\ \A i \in DOMAIN segments : ~segments[i].late

\* The segments a step starts.
Started == DOMAIN segments' \ DOMAIN segments

\* C6: a step that handles an interruption stops every segment of the
\* active set, the one it has just started included, leaves the set empty,
\* and stops nothing else; with nothing active it stops nothing.
C6_InterruptStopsAll ==
  [][epoch' > epoch =>
       /\ sourcesRef' = {}
       /\ stopped' = stopped \cup sourcesRef \cup Started]_vars

\* C6 witness: an interruption was handled with segments active: two are
\* stopped, so at least one was in the set before the step.
C6_Witness == epoch > 0 /\ Cardinality(stopped) >= 2 /\ sourcesRef = {}

\* C7: right after an interruption is handled the cursor equals the current
\* time of the output device clock (of some running output context).
C7_InterruptResetsToClock ==
  [][epoch' > epoch =>
       \E s \in Sess : outCtx[s] = "running" /\ nextStartTime' = clock[s]]_vars

\* C8: no step makes the cursor smaller.
C8_CursorMonotone == [][nextStartTime' >= nextStartTime]_vars

\* C9: with no interruption in between, a frame that arrived earlier is
\* scheduled before a frame that arrived after it, at a requested start
\* time no later; on one output context it also begins playing no later.
C9_ArrivalOrder ==
  \A i, j \in DOMAIN segments :
    Uninterrupted(i, j) =>
      /\ i < j
      /\ segments[i].req <= segments[j].req
      /\ segments[i].ctx = segments[j].ctx => segments[i].beg <= segments[j].beg

\* C9 witness: two frames whose handling interleaved at the decode await
\* (the later arrived while the earlier was suspended), both scheduled.
C9_Witness ==
  \E i, j \in DOMAIN segments :
    /\ Uninterrupted(i, j)
    /\ segments[j].q > 0
    /\ segments[i].req < segments[j].req

\* C10: a captured block is sent if and only if the mute flag was false
\* when the callback was invoked for it.
C10_SentIffUnmuted ==
  \A i \in DOMAIN blocks : blocks[i].sent <=> ~blocks[i].muted

\* C11: at every point at most one transport session is open or being
\* opened.
C11_OneTransport ==
  Cardinality({s \in Sess : conn[s] \in {"connecting", "open"}}) <= 1

\* C12: every block delivered to the callback while its session is open and
\* the mute flag is false is sent, once, tagged audio/pcm;rate=16000 (the
\* log keeps capture order, and a send happens inside its callback).
C12_EveryBlockSent ==
  \A i \in DOMAIN blocks :
    (blocks[i].open /\ ~blocks[i].muted)
      => blocks[i].sent /\ blocks[i].mime = "audio/pcm;rate=16000"

\* The sum of the durations of segments i .. j-1.
RECURSIVE DurSum(_, _)
DurSum(i, j) == IF i >= j THEN 0 ELSE segments[i].dur + DurSum(i + 1, j)

\* Segments i .. j are frames that arrived one after another on one output
\* context and were scheduled with the device clock still at the value T it
\* had when the first arrived, the cursor then being at or below T with no
\* earlier handler still suspended, and no interruption handled meanwhile.
BackToBack(i, j) ==
  /\ i <= j
  /\ \A k \in i..j :
       /\ segments[k].ctx = segments[i].ctx
       /\ segments[k].arr = segments[i].arr + (k - i)
       /\ segments[k].at = segments[i].at
       /\ segments[k].now = segments[i].at
  /\ segments[i].c0 <= segments[i].at
  /\ segments[i].q = 0
  /\ segments[i].epA = segments[j].epS

\* C13: of N frames arriving back-to-back with the device clock at T and the
\* cursor at or below T, the k-th is scheduled to start at T plus the
\* durations of the frames before it, and once the last is scheduled the
\* cursor is T plus all N durations.
C13_BackToBackStarts ==
  \A i, j \in DOMAIN segments :
    BackToBack(i, j)
      => /\ segments[j].req = segments[i].at + DurSum(i, j)
         /\ (/\ j = Len(segments)
             /\ pending = <<>>
             /\ nArrived = segments[j].arr
             /\ epoch = segments[j].epS)
              => nextStartTime = segments[i].at + DurSum(i, j + 1)

C13_Witness ==
  \E i, j \in DOMAIN segments :
    /\ i < j
    /\ BackToBack(i, j)
    /\ segments[i].at > 0
    /\ segments[i].dur # segments[j].dur
    /\ j = Len(segments)
    /\ pending = <<>>
    /\ nextStartTime = segments[i].at + DurSum(i, j + 1)

\* The step is the arrival of a frame whose decode fails: atob raises at
\* once, or the frame waits at the await for decodeAudioData to reject.
BadArrival ==
  /\ nArrived' = nArrived + 1
  /\ refs.outputAudioContextRef # 0
  /\ \/ pending' = pending
     \/ /\ Len(pending') = Len(pending) + 1
        /\ DecodeFails(pending'[Len(pending')])

\* The step is the rejection of the decode a handler awaited.
BadResume ==
  /\ pending # <<>>
  /\ Len(pending') < Len(pending)
  /\ DecodeFails(pending[ResumeIndex])

\* C14: a frame whose decode fails is dropped: its steps schedule no
\* segment, leave the active set and the session as they were, and leave the
\* cursor such that every valid frame is scheduled as without it: the
\* handlers suspended at the await read the cursor as it is, and a later
\* arrival clamps it to a device clock that is no earlier.
C14_BadFrameDropped ==
  [][(BadArrival \/ BadResume)
       => /\ segments' = segments
          /\ sourcesRef' = sourcesRef
          /\ stopped' = stopped
          /\ conn' = conn
          /\ epoch' = epoch
          /\ (\E i \in DOMAIN pending : ~DecodeFails(pending[i]))
               => nextStartTime' = nextStartTime
          /\ \A t \in 0..MaxClock :
               t >= clock[refs.outputAudioContextRef]
                 => ClampCursor(nextStartTime', t) = ClampCursor(nextStartTime, t)]_vars

\* Activation s, whose microphone request failed, is still the current one:
\* neither isOpen nor contextSummary has changed since it began.
FailedCurrent(s) == act[s].init = "failed" /\ s = nAct /\ isOpen

\* C15: when getUserMedia fails the activation is aborted: it opens no
\* transport session and creates no audio context, the status becomes the
\* failure string, isConnected is false for as long as neither isOpen nor
\* contextSummary changes, and no further activation is started meanwhile.
C15_MicFailureAborts ==
  /\ [](\A s \in Sess :
          /\ act[s].init = "failed"
               => /\ conn[s] = "none"
                  /\ inCtx[s] = "none"
                  /\ outCtx[s] = "none"
                  /\ mic[s] = "none"
          /\ FailedCurrent(s) => ~isConnected)
  /\ [][\A s \in Sess :
          /\ (act[s].init = "awaitMic" /\ act'[s].init = "failed")
               => status' = "Failed to connect microphone"
          /\ act[s].init = "failed" => act'[s].init = "failed"
          /\ (FailedCurrent(s) /\ nAct' # nAct)
               => (Close \/ ChangeContextOpen)]_vars

\* C16: a step of the transport's error callback sets the status to the
\* error state and opens no transport session and starts no activation; a
\* transport session is opened only by an activation whose microphone
\* request resolved, and an activation is started only when isOpen or
\* contextSummary changes.
C16_ErrorNoReconnect ==
  [][/\ (\E s \in Sess : OnError(s))
          => /\ status' = "Error occurred"
             /\ conn' = conn
             /\ act' = act
             /\ nAct' = nAct
             /\ refs' = refs
     /\ \A s \in Sess :
          (conn'[s] = "connecting" /\ conn[s] # "connecting")
            => /\ act[s].init = "awaitMic"
               /\ act'[s].init = "done"
               /\ status' # "Error occurred"
     /\ nAct' # nAct => (Open \/ ChangeContextOpen)]_vars

C16_Witness ==
  /\ status = "Error occurred"
  /\ \E s \in Sess : conn[s] = "open" /\ act[s].init = "done" /\ s = nAct
  /\ isOpen

\* C17: decodeAudio(encodeAudio(b)) is b, for every byte sequence b, the
\* empty one included.
C17_RoundTrip ==
  codec.op = "decoded"
    => codec.out.err = "none" /\ codec.out.bytes = codec.bytes

C17_Witness ==
  /\ codec.op = "decoded"
  /\ Len(codec.bytes) = 2
  /\ codec.bytes[1] = 255
  /\ codec.out.bytes = codec.bytes

\* C18: a sample k/32768 with -32768 <= k <= 32768, stored into an Int16 as
\* the capture callback does and divided by 32768 as decodeAudioData does,
\* comes back within 1/32768 of itself.
C18_SampleRoundTrip ==
  codec.op = "float"
    => /\ codec.out.err = "none"
       /\ codec.out.channels[1][1] - codec.k \in {0 - 1, 0, 1}

\* C19: decodeAudioData fails, producing no buffer, for every byte buffer
\* whose length is not a multiple of 2 * numChannels.
C19_InvalidFrameLength ==
  (codec.op = "buffer" /\ Len(codec.data) % (2 * codec.numChannels) # 0)
    => codec.out.err # "none"

\* generateArxivPapers has settled in this run of handleArxivScrape.
Fetched ==
  /\ arxiv.pc \in {"timer", "runPipeline", "done"}
  /\ arxiv.by = "handleArxivScrape"

\* C20: generateArxivPapers never throws and returns a list on every path,
\* the empty list when the service fails or the response is empty; and when
\* it returns the empty list handleArxivScrape runs no pipeline and the
\* mode goes back to INGEST.
C20_ListOrEmpty ==
  /\ [](Fetched
          => /\ ~arxiv.fetchedPapers.threw
             /\ arxiv.fetchedPapers.kind = "list"
             /\ (arxiv.resp.kind = "reject" \/ arxiv.resp.text = <<>>)
                  => arxiv.fetchedPapers.len = 0
             /\ arxiv.fetchedPapers = EmptyList => arxiv.pc = "timer")
  /\ [][arxiv.pc = "timer" => arxiv'.mode = "INGEST"]_vars

\* C21: while a reply streams and after it ended, the text of the bot
\* message created for it is the concatenation, in arrival order, of the
\* chunks consumed so far; and a step that consumes a chunk changes no
\* other message.
C21_ReplyIsConcatenation ==
  /\ [](\A r \in DOMAIN chat.log :
          chat.log[r].pos # 0
            => /\ chat.chatHistory[chat.log[r].pos].role = "model"
               /\ chat.chatHistory[chat.log[r].pos].text
                    = Concat(chat.log[r].chunks))
  /\ [][\A i \in DOMAIN chat.chatHistory :
          (chat.pc = "streaming" /\ i = chat.log[Len(chat.log)].pos)
            \/ chat'.chatHistory[i] = chat.chatHistory[i]]_vars

\* C22: when a segment is scheduled its requested start time is at least
\* the cursor (it is the cursor, line 168) and at least the device clock of
\* its output context at that moment.
C22_StartNotBeforeClock ==
  \A i \in DOMAIN segments : segments[i].req >= segments[i].now

\* The stage of the teardown a call of cleanup belongs to; 0 is the entry
\* of cleanup itself.
Stage(op) ==
  CASE op = "cleanup" -> 0
    [] op \in {"processor.disconnect", "source.disconnect"} -> 1
    [] op = "track.stop" -> 2
    [] op = "session.close" -> 3
    [] op \in {"outputAudioContext.close", "inputAudioContext.close"} -> 4

\* Within each run of cleanup the calls are made stage after stage.
Staged(ops) ==
  \A i \in 1..(Len(ops) - 1) :
    ops[i + 1] = "cleanup" \/ Stage(ops[i]) <= Stage(ops[i + 1])

\* C23: every run of cleanup makes its calls in this order: disconnect the
\* processor and the source node, stop the tracks, close the session, close
\* the output and input contexts; no call of a later stage comes before one
\* of an earlier stage.
C23_TeardownOrder ==
  [][CleanupRuns => Staged(Cleanup(Cleanup(World)).ops)]_vars

C23_Witness ==
  \E s \in Sess :
    /\ proc[s] = "disconnected"
    /\ srcNode[s] = "disconnected"
    /\ mic[s] = "stopped"
    /\ threw > 0

\* C24: the capture processor of an activation exists only once onopen has
\* fired for its transport session, and every captured block was delivered,
\* and sent, after that.
C24_CaptureAfterOpen ==
  /\ \A s \in Sess : proc[s] # "none" => conn[s] \in {"open", "closed"}
  /\ \A i \in DOMAIN blocks : conn[blocks[i].sess] \in {"open", "closed"}

C24_Witness ==
  \E i \in DOMAIN blocks :
    blocks[i].sent /\ blocks[i].open /\ conn[blocks[i].sess] = "open"

\* C25: a frame whose onmessage handling began before an interruption was
\* handled is not started after it: every segment is scheduled with as many
\* interruptions handled as when its frame arrived.
C25_NoStaleFrame ==
  \A i \in DOMAIN segments : segments[i].epA = segments[i].epS

\* C26: when an activation creates its output context after an earlier
\* activation was torn down, the cursor is not ahead of the new device
\* clock and the active set is empty.
C26_NoPlaybackLeak ==
  [][\A s \in Sess :
       (/\ outCtx[s] = "none"
        /\ outCtx'[s] = "running"
        /\ \E p \in Sess \ {s} : act[p].torn)
         => /\ nextStartTime' <= clock'[s]
            /\ sourcesRef' = {}]_vars

\* Activation s has a transport session that fired onopen and has neither
\* been closed nor seen teardown begin.
LiveSession(s) == conn[s] = "open" /\ ~act[s].torn

\* C27: isConnected is true only if the agent is open and some transport
\* session has fired onopen and has not been closed or torn down.
C27_ConnectedMeansLive ==
  isConnected => (isOpen /\ \E s \in Sess : LiveSession(s))

\* C28: once onclose has fired for a session no block captured afterwards
\* is sent on it (a block is sent only if its session was open when it was
\* captured), and the microphone of that activation is no longer live.
C28_ClosedStopsCapture ==
  /\ \A i \in DOMAIN blocks : blocks[i].sent => blocks[i].open
  /\ \A s \in Sess : conn[s] = "closed" => mic[s] # "live"

====
